---- MODULE Spec2Model ----
(***************************************************************************)
(* Tracker service of the index (src/src/tracker/service.rs): whitelist    *)
(* management, personal announce URLs with cached tracker keys, and live   *)
(* torrent info, as concurrent asynchronous calls against one external     *)
(* tracker and one shared database.                                        *)
(*                                                                         *)
(* Every handler is an async fn: it is cut into one action per segment     *)
(* between two awaits that touch the tracker or the database, so that the  *)
(* interleavings of concurrent calls are the interleavings of the model.   *)
(***************************************************************************)
EXTENDS Integers, Sequences, FiniteSets, TLC

(* ------------------------------ bounds -------------------------------- *)

\* the last instant of the clock
MaxTime == 1
\* the number of keys the tracker can issue in one run
MaxKeys == 2

\* concurrent callers of the service (one per inbound request)
Procs == {"r1", "r2"}
UserIds == {1, 2}
InfoHashes == {"h1"}
\* HTTP statuses the tracker answers with: two 2xx, the 404, one other non-2xx
Statuses == {200, 204, 404, 500}

(* ------------------------- configuration ------------------------------ *)

\* Service.token_valid_seconds (settings.tracker.token_valid_seconds)
token_valid_seconds == 1
\* Service.tracker_url (settings.tracker.url)
tracker_url == "udp://tracker:6969"

(* ------------------------------ state --------------------------------- *)

VARIABLES
    now,            \* the clock
    next_key,       \* tracker: the next key it will generate
    tracker_keys,   \* database: the table of tracker keys, rows tied to a user
    pc,             \* per call: position in the handler
    call,           \* per call: the operation and its arguments
    response,       \* per call: the tracker's response, once received
    tracker_key,    \* per call: the TrackerKey in hand (cached or newly issued)
    result,         \* per call: the returned Result
    trace,          \* per call: the tracker requests and database calls it made
    overtaken       \* per call: another call stored a key for the same user
                    \*           between this call's lookup and its own store

vars == <<now, next_key, tracker_keys, pc, call, response, tracker_key, result,
          trace, overtaken>>

\* the statistics importer (one batch run over the catalog of torrents)
VARIABLES
    imp_pc,         \* the run: "start", "running", "finished" or "aborted"
    imp_passes,     \* the passes over the catalog the process has started
    imp_next,       \* the position in the sequence of info hashes
    imp_work,       \* per torrent: the state of the worker that handles it
    imp_response,   \* per torrent: the tracker's answer to its lookup
    imp_info,       \* per torrent: the TorrentInfo in hand for the write
    torrent_stats,  \* database: the stored counts of every torrent
    imp_writes,     \* per torrent: the writes of its counts in this run
    imp_summary,    \* the batch summary {attempted, updated, skipped, failed}
    imp_db_failed   \* the database failed under the run

imp_vars == <<imp_pc, imp_passes, imp_next, imp_work, imp_response, imp_info,
              torrent_stats, imp_writes, imp_summary, imp_db_failed>>

\* the category service (add_category and delete_category)
VARIABLES
    categories,         \* database: the table of categories
    next_category_id,   \* database: the id the next inserted category gets
    cat_pc,             \* per call: where the handler is
    cat_call,           \* per call: operation, category name and user id
    cat_user,           \* per call: what get_compact_user returned
    cat_result,         \* per call: the Result the handler returned
    cat_trace           \* per call: the calls made to the category repository

cat_vars == <<categories, next_category_id, cat_pc, cat_call, cat_user, cat_result,
              cat_trace>>

(* ---------------------------- wire format ----------------------------- *)

\* the plaintext body the tracker sends for an unknown torrent
TorrentNotKnownBody == <<"torrent not known">>

\* the JSON text of a TorrentInfo, as a sequence of tokens
TorrentInfoJson(ti) ==
    <<"{info_hash:", ti.info_hash, ",seeders:", ti.seeders, ",completed:",
      ti.completed, ",leechers:", ti.leechers, ",peers:[]}">>

\* the JSON text of a TrackerKey, as a sequence of tokens
TrackerKeyJson(k) == <<"{key:", k.key, ",valid_until:", k.valid_until, "}">>

\* what the tracker reports for a torrent it knows
LiveInfo(h) ==
    [info_hash |-> h, seeders |-> 5, completed |-> 10, leechers |-> 2,
     peers |-> <<>>]

\* bodies of other shapes: the sentinel, the sentinel with a trailing
\* newline, an HTML error page
OtherBodies ==
    {TorrentNotKnownBody, <<"torrent not known", "\n">>,
     <<"<html>", "502", "</html>">>}

NoResponse == [transport_ok |-> FALSE, status |-> 0, readable |-> FALSE, body |-> <<>>]

\* a request that failed at transport level (reqwest::Error)
TransportError == NoResponse

HttpResponse(s, readable, b) ==
    [transport_ok |-> TRUE, status |-> s, readable |-> readable, body |-> b]

\* serde_json::from_str::<TorrentInfo>(&body)
ParseTorrentInfo(body) ==
    IF /\ Len(body) = 9
       /\ body[1] = "{info_hash:" /\ body[3] = ",seeders:"
       /\ body[5] = ",completed:" /\ body[7] = ",leechers:"
       /\ body[9] = ",peers:[]}"
    THEN [ok |-> TRUE,
          val |-> [info_hash |-> body[2], seeders |-> body[4],
                   completed |-> body[6], leechers |-> body[8],
                   peers |-> <<>>]]
    ELSE [ok |-> FALSE, val |-> <<>>]

NoKey == [key |-> 0, valid_until |-> 0]

\* response.json::<TrackerKey>()
ParseTrackerKey(r) ==
    IF /\ r.readable
       /\ Len(r.body) = 5
       /\ r.body[1] = "{key:" /\ r.body[3] = ",valid_until:" /\ r.body[5] = "}"
    THEN [ok |-> TRUE, val |-> [key |-> r.body[2], valid_until |-> r.body[4]]]
    ELSE [ok |-> FALSE, val |-> NoKey]

(* ------------------------------ results ------------------------------- *)

Ok(v) == [ok |-> TRUE, err |-> "", val |-> v]
Err(e) == [ok |-> FALSE, err |-> e, val |-> <<>>]
NoResult == Err("")

(* ------------------------------ tracing ------------------------------- *)

NoCall == [op |-> "", info_hash |-> "", user_id |-> 0]

Event(ev, hash, user, key, ttl) ==
    [ev |-> ev, info_hash |-> hash, user_id |-> user, key |-> key, ttl |-> ttl]

\* the events of a trace that are requests to the tracker API
TrackerRequests(t) ==
    SelectSeq(t, LAMBDA e : e.ev \in {"whitelist_torrent", "remove_torrent_from_whitelist",
                                      "get_torrent_info", "retrieve_new_tracker_key"})

\* the events of a trace that are writes to the database
DatabaseWrites(t) == SelectSeq(t, LAMBDA e : e.ev = "add_tracker_key")

(* ----------------------------- database ------------------------------- *)

\* Database::get_user_tracker_key: the keys cached for the user
get_user_tracker_key(user_id) == {r \in tracker_keys : r.user_id = user_id}

\* Database::add_tracker_key: a new row tied to the user
add_tracker_key(user_id, k) ==
    tracker_keys \cup {[user_id |-> user_id, key |-> k.key, valid_until |-> k.valid_until]}

(* --------------------------- pure handlers ---------------------------- *)

\* StatusCode::is_success
is_success(status) == status >= 200 /\ status <= 299

\* whitelist_info_hash with the transport failure reported as in
\* remove_info_hash_from_whitelist
whitelist_result_offline_as_internal(r) ==
    IF r.transport_ok
    THEN IF r.status >= 200 /\ r.status <= 299 THEN Ok(<<>>) ELSE Err("WhitelistingError")
    ELSE Err("InternalServerError")

\* whitelist_info_hash: the match on the response
whitelist_result(r) ==
    IF r.transport_ok
    THEN IF is_success(r.status) THEN Ok(<<>>) ELSE Err("WhitelistingError")
    ELSE Err("TrackerOffline")

\* remove_info_hash_from_whitelist: the match on the response
remove_result(r) ==
    IF r.transport_ok
    THEN IF is_success(r.status) THEN Ok(<<>>) ELSE Err("InternalServerError")
    ELSE Err("InternalServerError")

\* get_torrent_info with a failed request reported as the tracker being offline
torrent_info_result_offline(r) ==
    IF ~r.transport_ok THEN Err("TrackerOffline")
    ELSE IF r.status = 404 THEN Err("TorrentNotFound")
    ELSE IF r.readable
         THEN IF r.body = TorrentNotKnownBody THEN Err("TorrentNotFound")
              ELSE LET torrent_info == ParseTorrentInfo(r.body) IN
                   IF torrent_info.ok THEN Ok(torrent_info.val)
                   ELSE Err("InternalServerError")
         ELSE Err("InternalServerError")

\* get_torrent_info without the comparison with the plaintext sentinel
torrent_info_result_no_sentinel(r) ==
    IF ~r.transport_ok THEN Err("InternalServerError")
    ELSE IF r.status = 404 THEN Err("TorrentNotFound")
    ELSE IF r.readable
         THEN LET torrent_info == ParseTorrentInfo(r.body) IN
              IF torrent_info.ok THEN Ok(torrent_info.val)
              ELSE Err("InternalServerError")
         ELSE Err("InternalServerError")

\* get_torrent_info reading the body of successful answers only
torrent_info_result_checks_status(r) ==
    IF ~r.transport_ok THEN Err("InternalServerError")
    ELSE IF r.status = 404 THEN Err("TorrentNotFound")
    ELSE IF ~(r.status >= 200 /\ r.status <= 299) THEN Err("InternalServerError")
    ELSE IF r.readable
         THEN IF r.body = TorrentNotKnownBody THEN Err("TorrentNotFound")
              ELSE LET torrent_info == ParseTorrentInfo(r.body) IN
                   IF torrent_info.ok THEN Ok(torrent_info.val)
                   ELSE Err("InternalServerError")
         ELSE Err("InternalServerError")

\* get_torrent_info: everything after the request
torrent_info_result(r) ==
    IF ~r.transport_ok THEN Err("InternalServerError")
    ELSE IF r.status = 404 THEN Err("TorrentNotFound")
    ELSE IF r.readable
         THEN IF r.body = TorrentNotKnownBody THEN Err("TorrentNotFound")
              ELSE LET torrent_info == ParseTorrentInfo(r.body) IN
                   IF torrent_info.ok THEN Ok(torrent_info.val)
                   ELSE Err("InternalServerError")
         ELSE Err("InternalServerError")

\* the announce url without the separator
announce_url_with_key_no_slash(k) == <<tracker_url, k.key>>

\* format!("{}/{}", self.tracker_url, tracker_key.key)
announce_url_with_key(k) == <<tracker_url, "/", k.key>>

\* the match handing the inner error on to the caller
new_key_result_inner_error(r) ==
    IF r.ok THEN Ok(announce_url_with_key(r.val)) ELSE Err(r.err)

\* get_personal_announce_url: the match on retrieve_new_tracker_key's result
new_key_result(r) ==
    IF r.ok THEN Ok(announce_url_with_key(r.val)) ELSE Err("TrackerOffline")

(* ------------------------------- Init --------------------------------- *)

\* the catalog of the index, in the order the database lists it
Catalog == <<"t1", "t2", "t3", "t4">>
Torrents == {Catalog[i] : i \in 1..Len(Catalog)}

\* the importer's limit of tracker lookups in flight (Configuration)
ImporterConcurrency == 2

\* the counts as (seeders, leechers, completed)
Stats(s, l, c) == [seeders |-> s, leechers |-> l, completed |-> c]

\* the counts the database holds before the run
StoredBefore(t) == Stats(1, 1, 1)

NoInfo == [info_hash |-> "", seeders |-> 0, completed |-> 0, leechers |-> 0,
           peers |-> <<>>]

ImporterInit ==
    /\ imp_pc = "start"
    /\ imp_passes = 0
    /\ imp_next = 1
    /\ imp_work = [t \in Torrents |-> "pending"]
    /\ imp_response = [t \in Torrents |-> NoResponse]
    /\ imp_info = [t \in Torrents |-> NoInfo]
    /\ torrent_stats = [t \in Torrents |-> StoredBefore(t)]
    /\ imp_writes = [t \in Torrents |-> 0]
    /\ imp_summary = [attempted |-> 0, updated |-> 0, skipped |-> 0, failed |-> 0]
    /\ imp_db_failed = FALSE

\* the calls of the category service that may be under way at once
CategoryCalls == {"c1", "c2"}

CategoryNames == {"movies", "music"}

\* the ids the database hands out stay below this bound
MaxCategoryId == 3

Category(id, name) == [category_id |-> id, name |-> name]

NoCategoryCall == [op |-> "", category_name |-> "", user_id |-> 0]

\* the category service is built over a database that holds one category
CategoryInit ==
    /\ categories = {Category(1, "movies")}
    /\ next_category_id = 2
    /\ cat_pc = [c \in CategoryCalls |-> "idle"]
    /\ cat_call = [c \in CategoryCalls |-> NoCategoryCall]
    /\ cat_user = [c \in CategoryCalls |-> NoResult]
    /\ cat_result = [c \in CategoryCalls |-> NoResult]
    /\ cat_trace = [c \in CategoryCalls |-> <<>>]

Init ==
    /\ ImporterInit
    /\ CategoryInit
    /\ now = 0
    /\ next_key = 1
    /\ tracker_keys = {}
    /\ pc = [p \in Procs |-> "idle"]
    /\ call = [p \in Procs |-> NoCall]
    /\ response = [p \in Procs |-> NoResponse]
    /\ tracker_key = [p \in Procs |-> NoKey]
    /\ result = [p \in Procs |-> NoResult]
    /\ trace = [p \in Procs |-> <<>>]
    /\ overtaken = [p \in Procs |-> FALSE]

(* ------------------------------ actions ------------------------------- *)

\* the handler returns `r`
Return(p, r) ==
    /\ pc' = [pc EXCEPT ![p] = "done"]
    /\ result' = [result EXCEPT ![p] = r]

\* a caller invokes an operation; the handler runs up to its first await
Invoke(p, op, hash, user, first_pc, first_event) ==
    /\ pc[p] = "idle"
    /\ pc' = [pc EXCEPT ![p] = first_pc]
    /\ call' = [call EXCEPT ![p] = [op |-> op, info_hash |-> hash, user_id |-> user]]
    /\ trace' = [trace EXCEPT ![p] = first_event]
    /\ UNCHANGED <<now, next_key, tracker_keys, response, tracker_key, result,
                   overtaken>>

\* whitelist_info_hash up to `api_client.whitelist_torrent(&info_hash).await`
whitelist_info_hash_call(p, h) ==
    Invoke(p, "whitelist_info_hash", h, 0, "whitelist_torrent",
           <<Event("whitelist_torrent", h, 0, 0, 0)>>)

\* whitelist_info_hash refusing a hash that an earlier call has whitelisted
whitelist_info_hash_rejects_repeat(p, r) ==
    /\ pc[p] = "whitelist_torrent"
    /\ response' = [response EXCEPT ![p] = r]
    /\ IF \E q \in Procs \ {p} :
             /\ pc[q] = "done" /\ call[q].op = "whitelist_info_hash"
             /\ call[q].info_hash = call[p].info_hash /\ result[q].ok
       THEN Return(p, Err("WhitelistingError"))
       ELSE Return(p, whitelist_result(r))
    /\ UNCHANGED <<now, next_key, tracker_keys, call, tracker_key, trace, overtaken>>

\* whitelist_info_hash sending the request a second time when the first failed
whitelist_info_hash_retries(p, r) ==
    /\ pc[p] = "whitelist_torrent"
    /\ IF ~r.transport_ok /\ Len(trace[p]) = 1
       THEN /\ trace' = [trace EXCEPT ![p] =
                           Append(@, Event("whitelist_torrent", call[p].info_hash, 0, 0, 0))]
            /\ UNCHANGED <<pc, result, response>>
       ELSE /\ response' = [response EXCEPT ![p] = r]
            /\ Return(p, whitelist_result(r))
            /\ UNCHANGED trace
    /\ UNCHANGED <<now, next_key, tracker_keys, call, tracker_key, overtaken>>

\* whitelist_info_hash from the tracker's answer to the return
whitelist_info_hash(p, r) ==
    /\ pc[p] = "whitelist_torrent"
    /\ response' = [response EXCEPT ![p] = r]
    /\ Return(p, whitelist_result(r))
    /\ UNCHANGED <<now, next_key, tracker_keys, call, tracker_key, trace, overtaken>>

\* remove_info_hash_from_whitelist up to the request's await
remove_info_hash_from_whitelist_call(p, h) ==
    Invoke(p, "remove_info_hash_from_whitelist", h, 0, "remove_torrent_from_whitelist",
           <<Event("remove_torrent_from_whitelist", h, 0, 0, 0)>>)

\* remove_info_hash_from_whitelist from the tracker's answer to the return
remove_info_hash_from_whitelist(p, r) ==
    /\ pc[p] = "remove_torrent_from_whitelist"
    /\ response' = [response EXCEPT ![p] = r]
    /\ Return(p, remove_result(r))
    /\ UNCHANGED <<now, next_key, tracker_keys, call, tracker_key, trace, overtaken>>

\* get_torrent_info up to `api_client.get_torrent_info(info_hash).await`
get_torrent_info_call(p, h) ==
    Invoke(p, "get_torrent_info", h, 0, "get_torrent_info",
           <<Event("get_torrent_info", h, 0, 0, 0)>>)

\* get_torrent_info from the tracker's answer to the return
get_torrent_info(p, r) ==
    /\ pc[p] = "get_torrent_info"
    /\ response' = [response EXCEPT ![p] = r]
    /\ Return(p, torrent_info_result(r))
    /\ UNCHANGED <<now, next_key, tracker_keys, call, tracker_key, trace, overtaken>>

\* get_personal_announce_url up to `database.get_user_tracker_key(user_id).await`
get_personal_announce_url_call(p, u) ==
    Invoke(p, "get_personal_announce_url", "", u, "get_user_tracker_key", <<>>)

\* the key request of a call that found no cached key goes out
RequestNewKey(p) ==
    /\ pc' = [pc EXCEPT ![p] = "retrieve_new_tracker_key"]
    /\ trace' = [trace EXCEPT ![p] =
                   @ \o <<Event("get_user_tracker_key: None", "", call[p].user_id, 0, 0),
                          Event("retrieve_new_tracker_key", "", call[p].user_id, 0,
                                token_valid_seconds)>>]
    /\ UNCHANGED <<tracker_key, result>>

\* the handler asking for a new key whatever the database holds
get_personal_announce_url_ignores_cache(p) ==
    /\ pc[p] = "get_user_tracker_key"
    /\ RequestNewKey(p)
    /\ UNCHANGED <<now, next_key, tracker_keys, call, response, overtaken>>

\* the handler storing a cached key again with a new expiry before it returns it
get_personal_announce_url_refreshes_cached(p) ==
    /\ pc[p] = "get_user_tracker_key"
    /\ LET u == call[p].user_id
           cached == get_user_tracker_key(u) IN
       IF cached # {}
       THEN \E row \in cached :
              LET v == [key |-> row.key, valid_until |-> now + token_valid_seconds] IN
              /\ tracker_key' = [tracker_key EXCEPT ![p] = v]
              /\ tracker_keys' = add_tracker_key(u, v)
              /\ trace' = [trace EXCEPT ![p] =
                             Append(@, Event("get_user_tracker_key: Some", "", u, v.key, 0))]
              /\ Return(p, Ok(announce_url_with_key(v)))
       ELSE RequestNewKey(p) /\ UNCHANGED tracker_keys
    /\ UNCHANGED <<now, next_key, call, response, overtaken>>

\* the handler holding a per-user lock from the lookup to the store: it waits
\* while another call for the same user is between the two
get_personal_announce_url_serialized(p) ==
    /\ pc[p] = "get_user_tracker_key"
    /\ \A q \in Procs \ {p} :
          ~(/\ call[q].op = "get_personal_announce_url"
            /\ call[q].user_id = call[p].user_id
            /\ pc[q] \in {"retrieve_new_tracker_key", "add_tracker_key"})
    /\ LET u == call[p].user_id
           cached == get_user_tracker_key(u) IN
       IF cached # {}
       THEN \E row \in cached :
              LET v == [key |-> row.key, valid_until |-> row.valid_until] IN
              /\ tracker_key' = [tracker_key EXCEPT ![p] = v]
              /\ trace' = [trace EXCEPT ![p] =
                             Append(@, Event("get_user_tracker_key: Some", "", u, v.key, 0))]
              /\ Return(p, Ok(announce_url_with_key(v)))
       ELSE RequestNewKey(p)
    /\ UNCHANGED <<now, next_key, tracker_keys, call, response, overtaken>>

\* get_personal_announce_url from the database's answer: a cached key is
\* returned as it is; without one the key request goes out to the tracker
get_personal_announce_url(p) ==
    /\ pc[p] = "get_user_tracker_key"
    /\ LET u == call[p].user_id
           cached == get_user_tracker_key(u) IN
       IF cached # {}
       THEN \E row \in cached :
              LET v == [key |-> row.key, valid_until |-> row.valid_until] IN
              /\ tracker_key' = [tracker_key EXCEPT ![p] = v]
              /\ trace' = [trace EXCEPT ![p] =
                             Append(@, Event("get_user_tracker_key: Some", "", u, v.key, 0))]
              /\ Return(p, Ok(announce_url_with_key(v)))
       ELSE RequestNewKey(p)
    /\ UNCHANGED <<now, next_key, tracker_keys, call, response, overtaken>>

\* the ttl of the key request the call has sent
RequestedTtl(p) == trace[p][Len(trace[p])].ttl

\* the tracker generates a key that is valid for the requested time
TrackerIssuesKey(p, s) ==
    /\ next_key <= MaxKeys
    /\ next_key' = next_key + 1
    /\ response' = [response EXCEPT ![p] =
           HttpResponse(s, TRUE,
               TrackerKeyJson([key |-> next_key, valid_until |-> now + RequestedTtl(p)]))]

\* the answers of the tracker to a key request that carry no key: no answer,
\* an error page, an answer whose body cannot be read
KeyFailureResponses ==
    {TransportError, HttpResponse(500, TRUE, <<"<html>", "502", "</html>">>),
     HttpResponse(200, FALSE, <<>>)}

\* the tracker does not generate a key: no answer, or an answer without one
TrackerIssuesNoKey(p, r) ==
    /\ ParseTrackerKey(r).ok = FALSE
    /\ response' = [response EXCEPT ![p] = r]
    /\ UNCHANGED next_key

\* retrieve_new_tracker_key from the tracker's answer to
\* `database.add_tracker_key(user_id, &tracker_key).await`
retrieve_new_tracker_key(p) ==
    /\ pc[p] = "retrieve_new_tracker_key"
    /\ \/ TrackerIssuesKey(p, 200)
       \/ \E r \in KeyFailureResponses : TrackerIssuesNoKey(p, r)
    /\ LET r == response'[p]
           parsed == IF r.transport_ok THEN ParseTrackerKey(r)
                     ELSE [ok |-> FALSE, val |-> NoKey] IN
       IF parsed.ok
       THEN /\ tracker_key' = [tracker_key EXCEPT ![p] = parsed.val]
            /\ pc' = [pc EXCEPT ![p] = "add_tracker_key"]
            /\ UNCHANGED result
       ELSE /\ Return(p, new_key_result(Err("InternalServerError")))
            /\ UNCHANGED tracker_key
    /\ UNCHANGED <<now, tracker_keys, call, trace, overtaken>>

\* the last segment returning the new key without having stored it
store_new_tracker_key_without_add(p, db_ok) ==
    /\ pc[p] = "add_tracker_key"
    /\ LET u == call[p].user_id
           k == tracker_key[p] IN
       /\ trace' = [trace EXCEPT ![p] =
                      Append(@, Event(IF db_ok THEN "add_tracker_key"
                                      ELSE "add_tracker_key: Err", "", u, k.key, 0))]
       /\ IF db_ok
          THEN Return(p, new_key_result(Ok(k)))
          ELSE Return(p, new_key_result(Err("DatabaseError")))
    /\ UNCHANGED <<now, next_key, tracker_keys, call, response, tracker_key, overtaken>>

\* retrieve_new_tracker_key from the database's answer, and the return of
\* get_personal_announce_url
store_new_tracker_key(p, db_ok) ==
    /\ pc[p] = "add_tracker_key"
    /\ LET u == call[p].user_id
           k == tracker_key[p] IN
       /\ trace' = [trace EXCEPT ![p] =
                      Append(@, Event(IF db_ok THEN "add_tracker_key"
                                      ELSE "add_tracker_key: Err", "", u, k.key, 0))]
       /\ IF db_ok
          THEN /\ tracker_keys' = add_tracker_key(u, k)
               /\ overtaken' = [q \in Procs |->
                     IF /\ q # p
                        /\ call[q].op = "get_personal_announce_url"
                        /\ call[q].user_id = u
                        /\ pc[q] \in {"retrieve_new_tracker_key", "add_tracker_key"}
                     THEN TRUE ELSE overtaken[q]]
               /\ Return(p, new_key_result(Ok(k)))
          ELSE /\ Return(p, new_key_result(Err("DatabaseError")))
               /\ UNCHANGED <<tracker_keys, overtaken>>
    /\ UNCHANGED <<now, next_key, call, response, tracker_key>>

\* the caller takes the result; the slot serves the next request
Finish(p) ==
    /\ pc[p] = "done"
    /\ pc' = [pc EXCEPT ![p] = "idle"]
    /\ call' = [call EXCEPT ![p] = NoCall]
    /\ response' = [response EXCEPT ![p] = NoResponse]
    /\ tracker_key' = [tracker_key EXCEPT ![p] = NoKey]
    /\ result' = [result EXCEPT ![p] = NoResult]
    /\ trace' = [trace EXCEPT ![p] = <<>>]
    /\ overtaken' = [overtaken EXCEPT ![p] = FALSE]
    /\ UNCHANGED <<now, next_key, tracker_keys>>

\* time passes
Tick ==
    /\ now < MaxTime
    /\ now' = now + 1
    /\ UNCHANGED <<next_key, tracker_keys, pc, call, response, tracker_key, result,
                   trace, overtaken>>

\* the answers of the tracker to a whitelist request
StatusResponses == {TransportError} \cup {HttpResponse(s, TRUE, <<>>) : s \in Statuses}

\* the answers of the tracker to a torrent info request
TorrentInfoResponses(h) ==
    {TransportError}
      \cup {HttpResponse(s, TRUE, b) :
              s \in Statuses, b \in OtherBodies \cup {TorrentInfoJson(LiveInfo(h))}}
      \cup {HttpResponse(s, FALSE, <<>>) : s \in Statuses}

\* a step of the tracker service: the importer is not running
ServiceStep(A) == A /\ UNCHANGED imp_vars /\ UNCHANGED cat_vars

Next ==
    \/ \E p \in Procs, h \in InfoHashes : ServiceStep(whitelist_info_hash_call(p, h))
    \/ \E p \in Procs, r \in StatusResponses : ServiceStep(whitelist_info_hash(p, r))
    \/ \E p \in Procs, h \in InfoHashes :
          ServiceStep(remove_info_hash_from_whitelist_call(p, h))
    \/ \E p \in Procs, r \in StatusResponses :
          ServiceStep(remove_info_hash_from_whitelist(p, r))
    \/ \E p \in Procs, h \in InfoHashes : ServiceStep(get_torrent_info_call(p, h))
    \/ \E p \in Procs : \E r \in TorrentInfoResponses(call[p].info_hash) :
          ServiceStep(get_torrent_info(p, r))
    \/ \E p \in Procs, u \in UserIds : ServiceStep(get_personal_announce_url_call(p, u))
    \/ \E p \in Procs : ServiceStep(get_personal_announce_url(p))
    \/ \E p \in Procs : ServiceStep(retrieve_new_tracker_key(p))
    \/ \E p \in Procs, db_ok \in BOOLEAN : ServiceStep(store_new_tracker_key(p, db_ok))
    \/ \E p \in Procs : ServiceStep(Finish(p))
    \/ ServiceStep(Tick)

Spec == Init /\ [][Next]_vars

(* ======================= statistics importer ========================== *)

\* a step of the importer: no call of the tracker service is under way
ImporterStep(A) == A /\ UNCHANGED vars /\ UNCHANGED cat_vars

\* the counts the tracker may report for a torrent it knows
ReportedStats == {Stats(5, 2, 10), Stats(7, 3, 12)}

\* the answers of the tracker to the importer's lookup of torrent t: no answer
\* (or a timeout), a 404, the plaintext sentinel, an error page, live counts
ImporterResponses(t) ==
    {TransportError,
     HttpResponse(404, TRUE, <<>>),
     HttpResponse(200, TRUE, TorrentNotKnownBody),
     HttpResponse(200, TRUE, <<"<html>", "502", "</html>">>)}
      \cup {HttpResponse(200, TRUE,
                TorrentInfoJson([info_hash |-> t, seeders |-> st.seeders,
                                 completed |-> st.completed, leechers |-> st.leechers,
                                 peers |-> <<>>])) : st \in ReportedStats}

\* the workers with a tracker lookup in flight
InFlight == {t \in Torrents : imp_work[t] = "lookup"}

\* the workers that have not come to an end
Busy == {t \in Torrents : imp_work[t] \in {"lookup", "write"}}

\* the process as a persistent loop: a finished run is followed by another pass
main_loops ==
    /\ imp_pc \in {"start", "finished"}
    /\ imp_pc' = "running"
    /\ imp_passes' = imp_passes + 1
    /\ imp_next' = 1
    /\ imp_work' = [t \in Torrents |-> "pending"]
    /\ UNCHANGED <<imp_response, imp_info, torrent_stats, imp_writes, imp_summary,
                   imp_db_failed>>

\* main: the process starts the one run it makes
main ==
    /\ imp_pc = "start"
    /\ imp_pc' = "running"
    /\ imp_passes' = imp_passes + 1
    /\ UNCHANGED <<imp_next, imp_work, imp_response, imp_info, torrent_stats,
                   imp_writes, imp_summary, imp_db_failed>>

\* the fan-out without a limit: every lookup is dispatched at once
MayStartLookupUnbounded == TRUE

\* the admission rule of the fan-out: a lookup starts only below the limit
MayStartLookup == Cardinality(InFlight) < ImporterConcurrency

\* the run takes the next info hash of the sequence and starts its lookup
start_lookup ==
    /\ imp_pc = "running"
    /\ imp_next <= Len(Catalog)
    /\ MayStartLookup
    /\ LET t == Catalog[imp_next] IN
       /\ imp_work[t] = "pending"
       /\ imp_work' = [imp_work EXCEPT ![t] = "lookup"]
    /\ imp_next' = imp_next + 1
    /\ imp_summary' = [imp_summary EXCEPT !.attempted = @ + 1]
    /\ UNCHANGED <<imp_pc, imp_passes, imp_response, imp_info, torrent_stats,
                   imp_writes, imp_db_failed>>

\* the outcome of one item, from the result of TrackerService.get_torrent_info:
\* a write to come, a skip, or a recorded failure
ImportOutcome(res) ==
    IF res.ok THEN "write"
    ELSE IF res.err = "TorrentNotFound" THEN "skipped"
    ELSE "failed"

\* the lookup of torrent t returns, and an error of the lookup ends the run
lookup_returns_error_aborts(t, r) ==
    /\ imp_pc = "running"
    /\ imp_work[t] = "lookup"
    /\ LET res == torrent_info_result(r)
           outcome == ImportOutcome(res) IN
       /\ imp_response' = [imp_response EXCEPT ![t] = r]
       /\ imp_work' = [imp_work EXCEPT ![t] = outcome]
       /\ imp_info' = [imp_info EXCEPT ![t] = IF res.ok THEN res.val ELSE NoInfo]
       /\ imp_pc' = IF outcome = "failed" THEN "aborted" ELSE imp_pc
       /\ imp_summary' =
             IF outcome = "skipped" THEN [imp_summary EXCEPT !.skipped = @ + 1]
             ELSE IF outcome = "failed" THEN [imp_summary EXCEPT !.failed = @ + 1]
             ELSE imp_summary
    /\ UNCHANGED <<imp_passes, imp_next, torrent_stats, imp_writes, imp_db_failed>>

\* the lookup of torrent t returns: the worker goes on to the write, or records
\* the item as skipped or failed and ends
lookup_returns(t, r) ==
    /\ imp_pc = "running"
    /\ imp_work[t] = "lookup"
    /\ LET res == torrent_info_result(r)
           outcome == ImportOutcome(res) IN
       /\ imp_response' = [imp_response EXCEPT ![t] = r]
       /\ imp_work' = [imp_work EXCEPT ![t] = outcome]
       /\ imp_info' = [imp_info EXCEPT ![t] = IF res.ok THEN res.val ELSE NoInfo]
       /\ imp_summary' =
             IF outcome = "skipped" THEN [imp_summary EXCEPT !.skipped = @ + 1]
             ELSE IF outcome = "failed" THEN [imp_summary EXCEPT !.failed = @ + 1]
             ELSE imp_summary
    /\ UNCHANGED <<imp_pc, imp_passes, imp_next, torrent_stats, imp_writes,
                   imp_db_failed>>

\* the counts stored with seeders and leechers in each other's place
update_torrent_stats_swapped(t, seeders, leechers, completed) ==
    [torrent_stats EXCEPT ![t] = Stats(leechers, seeders, completed)]

\* Database::update_torrent_stats(info_hash, seeders, leechers, completed)
update_torrent_stats(t, seeders, leechers, completed) ==
    [torrent_stats EXCEPT ![t] = Stats(seeders, leechers, completed)]

\* the writes of the run as one transaction: a failed write rolls back the
\* counts the run has already written
write_stats_one_transaction(t, db_ok) ==
    /\ imp_pc = "running"
    /\ imp_work[t] = "write"
    /\ IF db_ok
       THEN /\ torrent_stats' = update_torrent_stats(t, imp_info[t].seeders,
                                    imp_info[t].leechers, imp_info[t].completed)
            /\ imp_writes' = [imp_writes EXCEPT ![t] = @ + 1]
            /\ imp_work' = [imp_work EXCEPT ![t] = "updated"]
            /\ imp_summary' = [imp_summary EXCEPT !.updated = @ + 1]
            /\ UNCHANGED <<imp_pc, imp_db_failed>>
       ELSE /\ imp_pc' = "aborted"
            /\ imp_db_failed' = TRUE
            /\ torrent_stats' = [u \in Torrents |-> StoredBefore(u)]
            /\ UNCHANGED <<imp_writes, imp_work, imp_summary>>
    /\ UNCHANGED <<imp_passes, imp_next, imp_response, imp_info>>

\* the worker of torrent t writes the counts of its TorrentInfo, one torrent per
\* write; a database that cannot be written to is fatal to the run
write_stats(t, db_ok) ==
    /\ imp_pc = "running"
    /\ imp_work[t] = "write"
    /\ IF db_ok
       THEN /\ torrent_stats' = update_torrent_stats(t, imp_info[t].seeders,
                                    imp_info[t].leechers, imp_info[t].completed)
            /\ imp_writes' = [imp_writes EXCEPT ![t] = @ + 1]
            /\ imp_work' = [imp_work EXCEPT ![t] = "updated"]
            /\ imp_summary' = [imp_summary EXCEPT !.updated = @ + 1]
            /\ UNCHANGED <<imp_pc, imp_db_failed>>
       ELSE /\ imp_pc' = "aborted"
            /\ imp_db_failed' = TRUE
            /\ UNCHANGED <<torrent_stats, imp_writes, imp_work, imp_summary>>
    /\ UNCHANGED <<imp_passes, imp_next, imp_response, imp_info>>

\* the sequence is exhausted and every worker has ended: the summary is
\* reported and the run is over
run_finishes ==
    /\ imp_pc = "running"
    /\ imp_next > Len(Catalog)
    /\ Busy = {}
    /\ imp_pc' = "finished"
    /\ UNCHANGED <<imp_passes, imp_next, imp_work, imp_response, imp_info,
                   torrent_stats, imp_writes, imp_summary, imp_db_failed>>

ImporterNext ==
    \/ ImporterStep(main)
    \/ ImporterStep(start_lookup)
    \/ \E t \in Torrents : \E r \in ImporterResponses(t) : ImporterStep(lookup_returns(t, r))
    \/ \E t \in Torrents, db_ok \in BOOLEAN : ImporterStep(write_stats(t, db_ok))
    \/ ImporterStep(run_finishes)

all_vars == <<vars, imp_vars, cat_vars>>

ImporterSpec == Init /\ [][ImporterNext]_all_vars

\* every lookup returns or times out, every write is answered, the run goes on
ImporterFairSpec == ImporterSpec /\ WF_all_vars(ImporterNext)

(* ========================= category service =========================== *)

\* a step of the category service: the tracker service and the importer rest
CategoryStep(A) == A /\ UNCHANGED vars /\ UNCHANGED imp_vars

\* the users that are administrators
Administrators == {1}

UserCompact(u) ==
    [user_id |-> u, username |-> "user", administrator |-> u \in Administrators]

\* user_repository.get_compact_user: the user, or an error
get_compact_user(u) == {Ok(UserCompact(u)), Err("UserNotFound")}

\* database.insert_category_and_get_id: the answer and the table after it
insert_category_and_get_id(name, db_ok) ==
    IF ~db_ok
    THEN [result |-> Err("Error"), categories |-> categories,
          next_category_id |-> next_category_id]
    ELSE IF \E row \in categories : row.name = name
    THEN [result |-> Err("CategoryAlreadyExists"), categories |-> categories,
          next_category_id |-> next_category_id]
    ELSE [result |-> Ok(next_category_id),
          categories |-> categories \cup {Category(next_category_id, name)},
          next_category_id |-> next_category_id + 1]

\* database.delete_category: the answer and the table after it
database_delete_category(name, db_ok) ==
    IF ~db_ok
    THEN [result |-> Err("Error"), categories |-> categories]
    ELSE IF \E row \in categories : row.name = name
    THEN [result |-> Ok(<<>>),
          categories |-> {row \in categories : row.name # name}]
    ELSE [result |-> Err("CategoryNotFound"), categories |-> categories]

\* the match of add_category on what the repository returned
add_category_result(r) ==
    IF r.ok THEN Ok(r.val)
    ELSE IF r.err = "CategoryAlreadyExists" THEN Err("CategoryExists")
    ELSE Err("DatabaseError")

\* the match of delete_category on what the repository returned
delete_category_result(r) ==
    IF r.ok THEN Ok(<<>>)
    ELSE IF r.err = "CategoryNotFound" THEN Err("CategoryNotFound")
    ELSE Err("DatabaseError")

CategoryReturn(c, r) ==
    /\ cat_pc' = [cat_pc EXCEPT ![c] = "done"]
    /\ cat_result' = [cat_result EXCEPT ![c] = r]

\* a caller invokes a handler, which runs up to `get_compact_user(user_id).await`
CategoryInvoke(c, op, name, u) ==
    /\ cat_pc[c] = "idle"
    /\ cat_pc' = [cat_pc EXCEPT ![c] = "get_compact_user"]
    /\ cat_call' = [cat_call EXCEPT ![c] =
                       [op |-> op, category_name |-> name, user_id |-> u]]
    /\ UNCHANGED <<categories, next_category_id, cat_user, cat_result, cat_trace>>

add_category_call(c, name, u) ==
    /\ next_category_id <= MaxCategoryId
    /\ CategoryInvoke(c, "add_category", name, u)

delete_category_call(c, name, u) ==
    CategoryInvoke(c, "delete_category", name, u)

\* the handler with the user's answer: `?`, the administrator check, and the
\* call of the repository operation `op`
Authorize(c, op, user) ==
    /\ cat_pc[c] = "get_compact_user"
    /\ cat_call[c].op = op
    /\ user \in get_compact_user(cat_call[c].user_id)
    /\ cat_user' = [cat_user EXCEPT ![c] = user]
    /\ IF ~user.ok
       THEN CategoryReturn(c, Err(user.err)) /\ UNCHANGED cat_trace
       ELSE IF ~user.val.administrator
       THEN CategoryReturn(c, Err("Unauthorized")) /\ UNCHANGED cat_trace
       ELSE /\ cat_pc' = [cat_pc EXCEPT ![c] = op]
            /\ cat_trace' = [cat_trace EXCEPT ![c] = Append(@, op)]
            /\ UNCHANGED cat_result
    /\ UNCHANGED <<categories, next_category_id, cat_call>>

\* add_category calling the repository for whoever the user is
add_category_without_check(c, user) ==
    /\ cat_pc[c] = "get_compact_user"
    /\ cat_call[c].op = "add_category"
    /\ user \in get_compact_user(cat_call[c].user_id)
    /\ cat_user' = [cat_user EXCEPT ![c] = user]
    /\ IF ~user.ok
       THEN CategoryReturn(c, Err(user.err)) /\ UNCHANGED cat_trace
       ELSE /\ cat_pc' = [cat_pc EXCEPT ![c] = "add_category"]
            /\ cat_trace' = [cat_trace EXCEPT ![c] = Append(@, "add_category")]
            /\ UNCHANGED cat_result
    /\ UNCHANGED <<categories, next_category_id, cat_call>>

\* add_category from the user's answer to `category_repository.add_category`
add_category(c, user) == Authorize(c, "add_category", user)

\* delete_category from the user's answer to `category_repository.delete_category`
delete_category(c, user) == Authorize(c, "delete_category", user)

\* add_category from the repository's answer to the return
add_category_returns(c, db_ok) ==
    /\ cat_pc[c] = "add_category"
    /\ LET out == insert_category_and_get_id(cat_call[c].category_name, db_ok) IN
       /\ categories' = out.categories
       /\ next_category_id' = out.next_category_id
       /\ CategoryReturn(c, add_category_result(out.result))
    /\ UNCHANGED <<cat_call, cat_user, cat_trace>>

\* delete_category from the repository's answer to the return
delete_category_returns(c, db_ok) ==
    /\ cat_pc[c] = "delete_category"
    /\ LET out == database_delete_category(cat_call[c].category_name, db_ok) IN
       /\ categories' = out.categories
       /\ CategoryReturn(c, delete_category_result(out.result))
    /\ UNCHANGED <<next_category_id, cat_call, cat_user, cat_trace>>

\* the caller takes the Result; the slot is free for the next call
CategoryFinish(c) ==
    /\ cat_pc[c] = "done"
    /\ cat_pc' = [cat_pc EXCEPT ![c] = "idle"]
    /\ cat_call' = [cat_call EXCEPT ![c] = NoCategoryCall]
    /\ cat_user' = [cat_user EXCEPT ![c] = NoResult]
    /\ cat_result' = [cat_result EXCEPT ![c] = NoResult]
    /\ cat_trace' = [cat_trace EXCEPT ![c] = <<>>]
    /\ UNCHANGED <<categories, next_category_id>>

CategoryNext ==
    \/ \E c \in CategoryCalls, name \in CategoryNames, u \in UserIds :
          CategoryStep(add_category_call(c, name, u))
    \/ \E c \in CategoryCalls, name \in CategoryNames, u \in UserIds :
          CategoryStep(delete_category_call(c, name, u))
    \/ \E c \in CategoryCalls, u \in UserIds : \E user \in get_compact_user(u) :
          CategoryStep(add_category(c, user))
    \/ \E c \in CategoryCalls, u \in UserIds : \E user \in get_compact_user(u) :
          CategoryStep(delete_category(c, user))
    \/ \E c \in CategoryCalls, db_ok \in BOOLEAN :
          CategoryStep(add_category_returns(c, db_ok))
    \/ \E c \in CategoryCalls, db_ok \in BOOLEAN :
          CategoryStep(delete_category_returns(c, db_ok))
    \/ \E c \in CategoryCalls : CategoryStep(CategoryFinish(c))

CategorySpec == Init /\ [][CategoryNext]_all_vars

(* ============================== claims ================================ *)

\* the call in slot p has returned from `op`
Done(p, op) == pc[p] = "done" /\ call[p].op = op

\* the call in slot p found a cached key / found none
FoundKey(p) == Len(trace[p]) >= 1 /\ trace[p][1].ev = "get_user_tracker_key: Some"
FoundNoKey(p) == Len(trace[p]) >= 1 /\ trace[p][1].ev = "get_user_tracker_key: None"

\* the key the call in slot p found cached
CachedKey(p) == trace[p][1].key

Is2xx(r) == r.status \in 200..299

\* C1: whitelist_info_hash returns Ok(()) on a 2xx answer, WhitelistingError on
\* any other status and TrackerOffline on a transport failure, and nothing else.
C1_WhitelistOutcome ==
    \A p \in Procs : Done(p, "whitelist_info_hash") =>
        LET r == response[p] IN
        /\ (r.transport_ok /\ Is2xx(r)) => result[p] = Ok(<<>>)
        /\ (r.transport_ok /\ ~Is2xx(r)) => result[p] = Err("WhitelistingError")
        /\ ~r.transport_ok => result[p] = Err("TrackerOffline")

\* two finished whitelist calls: one rejected by the tracker, one that never
\* reached it
C1_Witness ==
    \E p, q \in Procs :
        /\ Done(p, "whitelist_info_hash") /\ Done(q, "whitelist_info_hash")
        /\ response[p].transport_ok /\ response[p].status = 500
        /\ result[p] = Err("WhitelistingError")
        /\ ~response[q].transport_ok /\ result[q] = Err("TrackerOffline")

\* C2: with a key cached for the user, get_personal_announce_url sends no key
\* request, writes nothing to the database and returns tracker_url/cached key.
C2_KeyReuse ==
    \A p \in Procs : (Done(p, "get_personal_announce_url") /\ FoundKey(p)) =>
        /\ \E row \in tracker_keys :
              row.user_id = call[p].user_id /\ row.key = CachedKey(p)
        /\ TrackerRequests(trace[p]) = <<>>
        /\ Len(trace[p]) = 1
        /\ result[p] = Ok(<<tracker_url, "/", CachedKey(p)>>)

\* a call that returned the cached key's url
C2_Witness ==
    \E p \in Procs :
        /\ Done(p, "get_personal_announce_url") /\ FoundKey(p)
        /\ result[p].ok /\ CachedKey(p) > 0

\* the key the tracker sent to the call in slot p
IssuedKey(p) == [key |-> response[p].body[2], valid_until |-> response[p].body[4]]

\* C3: without a cached key, and with the tracker and the database succeeding,
\* one call sends exactly one key request with the configured TTL, then stores
\* exactly the key it received under its user, then returns tracker_url/new key.
C3_KeyIssuance ==
    \A p \in Procs :
        /\ (call[p].op = "get_personal_announce_url" /\ pc[p] # "done") =>
              result[p] = NoResult
        /\ (Done(p, "get_personal_announce_url") /\ FoundNoKey(p) /\ result[p].ok) =>
              LET u == call[p].user_id
                  k == IssuedKey(p) IN
              /\ Len(trace[p]) = 3
              /\ trace[p][2] = Event("retrieve_new_tracker_key", "", u, 0, token_valid_seconds)
              /\ trace[p][3] = Event("add_tracker_key", "", u, k.key, 0)
              /\ Len(TrackerRequests(trace[p])) = 1
              /\ [user_id |-> u, key |-> k.key, valid_until |-> k.valid_until]
                    \in tracker_keys
              /\ result[p] = Ok(<<tracker_url, "/", k.key>>)

\* a call that had a key issued, stored it and returned its url
C3_Witness ==
    \E p \in Procs :
        /\ Done(p, "get_personal_announce_url") /\ FoundNoKey(p) /\ result[p].ok
        /\ \E row \in tracker_keys :
              row.user_id = call[p].user_id /\ row.key = IssuedKey(p).key

\* C4: get_torrent_info returns TorrentNotFound for a 200 answer whose body is
\* exactly "torrent not known", as it does for a 404 answer with any body.
C4_NotFoundNormalization ==
    \A p \in Procs : (Done(p, "get_torrent_info") /\ response[p].transport_ok) =>
        LET r == response[p] IN
        /\ (r.status = 404) => result[p] = Err("TorrentNotFound")
        /\ (r.status = 200 /\ r.readable /\ r.body = <<"torrent not known">>) =>
              result[p] = Err("TorrentNotFound")

\* one call answered 200 with the sentinel, one answered 404 with a TorrentInfo
C4_Witness ==
    \E p, q \in Procs :
        /\ Done(p, "get_torrent_info") /\ Done(q, "get_torrent_info")
        /\ response[p].status = 200 /\ response[p].readable
        /\ response[p].body = <<"torrent not known">>
        /\ response[q].status = 404 /\ response[q].readable
        /\ ParseTorrentInfo(response[q].body).ok
        /\ result[p] = result[q]

\* the bodies that are the JSON of a TorrentInfo
DecodableBodies == {TorrentInfoJson(LiveInfo(h)) : h \in InfoHashes}

\* C5: get_torrent_info returns InternalServerError, never TrackerOffline or Ok,
\* on a transport failure and on a 200 answer whose body is neither the sentinel
\* nor a TorrentInfo.
C5_InternalServerError ==
    \A p \in Procs : Done(p, "get_torrent_info") =>
        LET r == response[p] IN
        /\ ~r.transport_ok => result[p] = Err("InternalServerError")
        /\ (/\ r.transport_ok /\ r.status = 200
            /\ (~r.readable \/ (/\ r.body # <<"torrent not known">>
                                /\ r.body \notin DecodableBodies))) =>
              result[p] = Err("InternalServerError")

\* one call that never reached the tracker, one answered 200 with an HTML page
C5_Witness ==
    \E p, q \in Procs :
        /\ Done(p, "get_torrent_info") /\ Done(q, "get_torrent_info")
        /\ ~response[p].transport_ok
        /\ response[q].transport_ok /\ response[q].status = 200
        /\ response[q].readable /\ response[q].body = <<"<html>", "502", "</html>">>
        /\ result[p] = Err("InternalServerError") /\ result[q] = result[p]

\* C6: remove_info_hash_from_whitelist has the outcomes of whitelist_info_hash:
\* Ok(()) on a 2xx answer, TrackerOffline on a transport failure, and the generic
\* InternalServerError on any other status.
C6_RemoveOutcome ==
    \A p \in Procs : Done(p, "remove_info_hash_from_whitelist") =>
        LET r == response[p] IN
        /\ (r.transport_ok /\ Is2xx(r)) => result[p] = Ok(<<>>)
        /\ (r.transport_ok /\ ~Is2xx(r)) => result[p] = Err("InternalServerError")
        /\ ~r.transport_ok => result[p] = Err("TrackerOffline")

\* the key request of the call in slot p brought no key: the request failed or
\* its body is not a TrackerKey
NoKeyReceived(p) == response[p] \in KeyFailureResponses

\* the database refused the key of the call in slot p
StoreFailed(p) == trace[p][Len(trace[p])].ev = "add_tracker_key: Err"

\* C7: the only error of get_personal_announce_url is TrackerOffline: a failed
\* key request, an undecodable key and a failed store all return it, and in the
\* first two cases the call stores no key.
C7_OnlyTrackerOffline ==
    \A p \in Procs : Done(p, "get_personal_announce_url") =>
        /\ result[p].ok \/ result[p] = Err("TrackerOffline")
        /\ (FoundNoKey(p) /\ (NoKeyReceived(p) \/ StoreFailed(p))) =>
              result[p] = Err("TrackerOffline")
        /\ (FoundNoKey(p) /\ NoKeyReceived(p)) =>
              /\ Len(trace[p]) = 2
              /\ DatabaseWrites(trace[p]) = <<>>
              /\ tracker_key[p] = NoKey

\* one call whose key request failed, one whose key the database refused
C7_Witness ==
    \E p, q \in Procs :
        /\ Done(p, "get_personal_announce_url") /\ Done(q, "get_personal_announce_url")
        /\ FoundNoKey(p) /\ ~response[p].transport_ok
        /\ FoundNoKey(q) /\ StoreFailed(q)
        /\ result[p] = Err("TrackerOffline") /\ result[q] = Err("TrackerOffline")

\* C8: a cached key is reused only while now < valid_until: no call returns the
\* url of a cached key that has expired.
C8_ReuseOnlyWhileValid ==
    [][\A p \in Procs :
          (pc[p] = "get_user_tracker_key" /\ pc'[p] = "done") =>
              now < tracker_key'[p].valid_until]_vars

\* C9 as claimed: whatever the interleaving, a user has at most one key in the
\* database.
C9_AtMostOneKeyPerUser ==
    \A u \in UserIds : Cardinality(get_user_tracker_key(u)) <= 1

\* the call in slot p stores its key in this step
StoresKey(p) == pc[p] = "add_tracker_key" /\ tracker_keys' # tracker_keys

\* C9 as amended: a call adds at most one key, and a key is added for a user
\* who already has one only by a call that was overtaken: it had read "no key"
\* before that key was stored. Calls that do not overlap leave each user with at
\* most one key.
C9_SecondKeyOnlyWhenOvertaken ==
    [][\A p \in Procs : StoresKey(p) =>
          /\ Cardinality(tracker_keys') = Cardinality(tracker_keys) + 1
          /\ FoundNoKey(p)
          /\ get_user_tracker_key(call[p].user_id) # {} => overtaken[p]]_vars

\* an overtaken call has stored a second key for its user
C9_Witness ==
    \E p \in Procs :
        /\ Done(p, "get_personal_announce_url") /\ overtaken[p] /\ result[p].ok
        /\ FoundNoKey(p)
        /\ Cardinality(get_user_tracker_key(call[p].user_id)) = 2

\* the calls in slots p and q are calls for the same user
SameUser(p, q) ==
    /\ p # q
    /\ call[p].op = "get_personal_announce_url"
    /\ call[q].op = "get_personal_announce_url"
    /\ call[p].user_id = call[q].user_id

\* C10: key issuance is not serialized per user. A call that reads "no key"
\* goes on to request a key while another call for the same user is already
\* requesting or storing one; both may receive and store a key; and two such
\* calls that both succeed return URLs built from different keys, both stored.
C10_IssuanceNotSerialized ==
    \A p, q \in Procs : SameUser(p, q) =>
        /\ (/\ pc[p] = "get_user_tracker_key"
            /\ pc[q] \in {"retrieve_new_tracker_key", "add_tracker_key"}
            /\ get_user_tracker_key(call[p].user_id) = {}) =>
              ENABLED (get_personal_announce_url(p) /\ pc'[p] = "retrieve_new_tracker_key")
        /\ (/\ pc[p] = "retrieve_new_tracker_key"
            /\ pc[q] \in {"retrieve_new_tracker_key", "add_tracker_key"}
            /\ next_key <= MaxKeys) =>
              ENABLED (retrieve_new_tracker_key(p) /\ pc'[p] = "add_tracker_key")
        /\ (pc[p] = "add_tracker_key" /\ pc[q] = "add_tracker_key") =>
              /\ tracker_key[p].key # tracker_key[q].key
              /\ ENABLED (store_new_tracker_key(p, TRUE) /\ result'[p].ok)
        /\ (/\ pc[p] = "done" /\ pc[q] = "done"
            /\ FoundNoKey(p) /\ FoundNoKey(q) /\ result[p].ok /\ result[q].ok) =>
              /\ result[p] # result[q]
              /\ \A x \in {p, q} : \E row \in get_user_tracker_key(call[x].user_id) :
                    result[x] = Ok(<<tracker_url, "/", row.key>>)

\* both calls read "no key", both had a key issued, both stored it, and they
\* returned different URLs
C10_Witness ==
    \E p, q \in Procs :
        /\ SameUser(p, q) /\ pc[p] = "done" /\ pc[q] = "done"
        /\ FoundNoKey(p) /\ FoundNoKey(q)
        /\ Len(TrackerRequests(trace[p])) = 1 /\ Len(TrackerRequests(trace[q])) = 1
        /\ Len(DatabaseWrites(trace[p])) = 1 /\ Len(DatabaseWrites(trace[q])) = 1
        /\ result[p].ok /\ result[q].ok /\ result[p] # result[q]

(* ---------------------- behaviour of the service --------------------- *)

\* the call in slot p was answered with a 2xx status
Answered2xx(p) == response[p].transport_ok /\ Is2xx(response[p])

\* C16: whitelisting is idempotent for the caller: of two calls of
\* whitelist_info_hash for the same hash that the tracker both answers with 2xx,
\* each returns Ok(()), whatever the other has returned before it.
C16_WhitelistIdempotent ==
    \A p, q \in Procs :
        (/\ p # q
         /\ Done(p, "whitelist_info_hash") /\ Done(q, "whitelist_info_hash")
         /\ call[p].info_hash = call[q].info_hash
         /\ Answered2xx(p) /\ Answered2xx(q)) =>
            result[p] = Ok(<<>>) /\ result[q] = Ok(<<>>)

\* two calls for the same hash, answered 200 and 204, both returned Ok(())
C16_Witness ==
    \E p, q \in Procs :
        /\ p # q
        /\ Done(p, "whitelist_info_hash") /\ Done(q, "whitelist_info_hash")
        /\ call[p].info_hash = call[q].info_hash
        /\ response[p].status = 200 /\ response[q].status = 204
        /\ result[p].ok /\ result[q].ok

\* the operations that go to the tracker with their first step
OneRequestOps ==
    {"whitelist_info_hash", "remove_info_hash_from_whitelist", "get_torrent_info"}

\* C17: a call of whitelist_info_hash, remove_info_hash_from_whitelist or
\* get_torrent_info sends exactly one request to the tracker, a call of
\* get_personal_announce_url at most one (one when no key is cached), whatever
\* the outcome: no request is sent a second time.
C17_NoRetry ==
    \A p \in Procs :
        LET n == Len(TrackerRequests(trace[p])) IN
        /\ call[p].op \in OneRequestOps => n = 1
        /\ call[p].op = "get_personal_announce_url" =>
              /\ n <= 1
              /\ FoundNoKey(p) => n = 1
              /\ FoundKey(p) => n = 0

\* a whitelist call that failed and a key request that failed, one request each
C17_Witness ==
    \E p, q \in Procs :
        /\ Done(p, "whitelist_info_hash") /\ ~response[p].transport_ok
        /\ result[p] = Err("TrackerOffline")
        /\ Len(TrackerRequests(trace[p])) = 1
        /\ Done(q, "get_personal_announce_url") /\ result[q] = Err("TrackerOffline")
        /\ Len(TrackerRequests(trace[q])) = 1

\* the outcome the body of an answer stands for: the sentinel, a TorrentInfo,
\* or neither
BodyOutcome(readable, body, h) ==
    IF ~readable THEN Err("InternalServerError")
    ELSE IF body = <<"torrent not known">> THEN Err("TorrentNotFound")
    ELSE IF body \in DecodableBodies THEN Ok(LiveInfo(h))
    ELSE Err("InternalServerError")

\* C18: get_torrent_info looks at the status only to detect 404: for any other
\* status, 2xx or not, the body alone decides the outcome, so a 500 answer with
\* a decodable body is returned as a TorrentInfo.
C18_StatusOnlyFor404 ==
    \A p \in Procs :
        (/\ Done(p, "get_torrent_info")
         /\ response[p].transport_ok /\ response[p].status # 404) =>
            result[p] = BodyOutcome(response[p].readable, response[p].body,
                                    call[p].info_hash)

\* a 500 answer with a TorrentInfo returned as Ok, and a 500 answer with the
\* sentinel returned as TorrentNotFound
C18_Witness ==
    \E p, q \in Procs :
        /\ Done(p, "get_torrent_info") /\ Done(q, "get_torrent_info")
        /\ response[p].status = 500 /\ result[p] = Ok(LiveInfo(call[p].info_hash))
        /\ response[q].status = 500 /\ result[q] = Err("TorrentNotFound")

\* C19: the service writes to the database in one place: the only step that
\* changes it is the store of a call of get_personal_announce_url that found no
\* cached key, and it adds one key, for that call's user; every other step of
\* every handler leaves the database as it is.
C19_OneWriter ==
    [][tracker_keys' # tracker_keys =>
          \E p \in Procs :
              /\ call[p].op = "get_personal_announce_url"
              /\ pc[p] = "add_tracker_key" /\ pc'[p] = "done"
              /\ FoundNoKey(p)
              /\ tracker_keys \subseteq tracker_keys'
              /\ Cardinality(tracker_keys' \ tracker_keys) = 1
              /\ \A row \in tracker_keys' \ tracker_keys :
                    row.user_id = call[p].user_id /\ row.key = tracker_key[p].key]_vars

\* the database holds the one key a call has stored for its user, after calls
\* of the other handlers and a call that reused the key
C19_Witness ==
    \E p, q \in Procs :
        /\ Done(p, "get_personal_announce_url") /\ FoundKey(p)
        /\ Done(q, "get_torrent_info") /\ result[q].ok
        /\ Cardinality(tracker_keys) = 1
        /\ \A row \in tracker_keys : row.user_id = call[p].user_id

(* --------------------------- importer claims -------------------------- *)

\* the tracker has no record of the torrent: a 404, or the plaintext sentinel
NotFoundAnswer(r) ==
    r.transport_ok /\ (r.status = 404 \/ (r.readable /\ r.body = <<"torrent not known">>))

\* the tracker reported live counts
LiveAnswer(r) ==
    r.transport_ok /\ r.status # 404 /\ r.readable /\ Len(r.body) = 9

\* the lookup failed in any other way
ErrorAnswer(r) == ~NotFoundAnswer(r) /\ ~LiveAnswer(r)

\* the torrents of the catalog whose lookup was answered in the given way
Answered(Kind(_)) == {t \in Torrents : Kind(imp_response[t])}

\* C11: one importer run attempts every torrent whatever the outcomes of the
\* lookups, is never aborted by the error of one lookup, writes exactly the
\* torrents whose lookup succeeded, and reports attempted = N, failed = the
\* erroring lookups, skipped = the not-found lookups, updated = N - failed -
\* skipped.
C11_ImporterIsolation ==
    /\ imp_pc = "aborted" => imp_db_failed
    /\ imp_pc = "finished" =>
          LET N == Len(Catalog) IN
          /\ \A t \in Torrents : imp_work[t] \in {"updated", "skipped", "failed"}
          /\ imp_summary.attempted = N
          /\ imp_summary.failed = Cardinality(Answered(ErrorAnswer))
          /\ imp_summary.skipped = Cardinality(Answered(NotFoundAnswer))
          /\ imp_summary.updated = N - imp_summary.failed - imp_summary.skipped
          /\ \A t \in Torrents : imp_writes[t] > 0 <=> LiveAnswer(imp_response[t])

\* a finished run with one failed lookup, one torrent the tracker does not know
\* and the other torrents updated
C11_Witness ==
    /\ imp_pc = "finished"
    /\ imp_summary = [attempted |-> 4, updated |-> 2, skipped |-> 1, failed |-> 1]
    /\ ErrorAnswer(imp_response["t2"]) /\ NotFoundAnswer(imp_response["t3"])
    /\ imp_writes["t1"] = 1 /\ imp_writes["t4"] = 1

\* C12: with the limit K and more than K torrents, at most K tracker lookups
\* are in flight in every state of a run.
C12_ConcurrencyBound ==
    Len(Catalog) > ImporterConcurrency => Cardinality(InFlight) <= ImporterConcurrency

\* the limit is reached while torrents are still waiting for their lookup
C12_Witness ==
    /\ Cardinality(InFlight) = ImporterConcurrency
    /\ imp_next <= Len(Catalog)
    /\ imp_pc = "running"

\* C13: a lookup that ends in TorrentNotFound or in an error leaves the stored
\* counts as they are, the counts of a torrent change only by its own write,
\* and a failed write changes no counts: what was written for other torrents
\* stays.
C13_CountsKept ==
    [][/\ \A t \in Torrents :
            /\ (imp_work[t] = "lookup" /\ imp_work'[t] \in {"skipped", "failed"}) =>
                  torrent_stats' = torrent_stats
            /\ torrent_stats'[t] # torrent_stats[t] =>
                  (imp_work[t] = "write" /\ imp_work'[t] = "updated")
            /\ imp_work'[t] \in {"skipped", "failed"} =>
                  torrent_stats'[t] = StoredBefore(t)
       /\ (imp_pc = "running" /\ imp_pc' = "aborted") => torrent_stats' = torrent_stats
      ]_all_vars

\* a write failed after another torrent was updated and a third was skipped:
\* the update is still there, the skipped torrent has its old counts
C13_Witness ==
    \E t, u \in Torrents :
        /\ imp_pc = "aborted" /\ imp_db_failed
        /\ imp_work[t] = "updated" /\ torrent_stats[t] # StoredBefore(t)
        /\ imp_work[u] = "skipped" /\ torrent_stats[u] = StoredBefore(u)

\* the counts in the body of a live answer
AnsweredStats(r) == Stats(r.body[4], r.body[8], r.body[6])

\* C14: in one run no torrent is written twice, and after the run every
\* torrent whose lookup succeeded has been written once and stores the
\* seeders, leechers and completed the tracker reported for it.
C14_WrittenOnceAsReported ==
    \A t \in Torrents :
        /\ imp_writes[t] <= 1
        /\ (imp_pc = "finished" /\ LiveAnswer(imp_response[t])) =>
              /\ imp_writes[t] = 1
              /\ torrent_stats[t] = AnsweredStats(imp_response[t])

\* a finished run that stored different counts for two torrents
C14_Witness ==
    /\ imp_pc = "finished"
    /\ torrent_stats["t1"] = Stats(5, 2, 10)
    /\ torrent_stats["t2"] = Stats(7, 3, 12)
    /\ imp_writes["t1"] = 1 /\ imp_writes["t2"] = 1

\* C15: a run is one pass that ends: with every lookup answered and the
\* database reachable the run reaches "finished", no second pass is started,
\* and failures of single items do not make the run an aborted one.
C15_SinglePassTerminates ==
    /\ <>(imp_pc = "finished" \/ imp_db_failed)
    /\ [](imp_passes <= 1)
    /\ [](imp_pc = "aborted" => imp_db_failed)
    /\ [][imp_pc = "finished" => imp_pc' = "finished"]_all_vars

\* a run that finished although lookups failed
C15_Witness ==
    /\ imp_pc = "finished" /\ imp_passes = 1
    /\ imp_summary.failed >= 2 /\ ~imp_db_failed


(* --------------------------- category claims -------------------------- *)

\* the handler of call c has the answer of get_compact_user
LookedUp(c) == cat_pc[c] \notin {"idle", "get_compact_user"}

\* the user of call c was found and is an administrator
IsAdministrator(c) ==
    IF cat_user[c].ok THEN cat_user[c].val.administrator ELSE FALSE

\* C20: category mutations are administrator-only: when the user looked up is
\* not an administrator, add_category and delete_category return
\* Err(Unauthorized); when the lookup fails they return its error; in both
\* cases the category repository is not called, and no step changes the set of
\* categories but the repository call of an administrator's request.
C20_AdministratorOnly ==
    /\ [](\A c \in CategoryCalls :
            (LookedUp(c) /\ ~IsAdministrator(c)) =>
                /\ cat_pc[c] = "done"
                /\ cat_trace[c] = <<>>
                /\ ~cat_result[c].ok
                /\ cat_result[c].err =
                      (IF cat_user[c].ok THEN "Unauthorized" ELSE cat_user[c].err))
    /\ [][categories' # categories =>
            \E c \in CategoryCalls :
                /\ cat_pc[c] \in {"add_category", "delete_category"}
                /\ cat_pc'[c] = "done"
                /\ IsAdministrator(c)]_all_vars

\* an add_category refused to a user who is no administrator and a
\* delete_category that returned the error of the lookup, the categories as
\* they were
C20_Witness ==
    \E c, d \in CategoryCalls :
        /\ cat_pc[c] = "done" /\ cat_call[c].op = "add_category"
        /\ cat_user[c].ok /\ ~cat_user[c].val.administrator
        /\ cat_result[c].err = "Unauthorized" /\ cat_trace[c] = <<>>
        /\ cat_pc[d] = "done" /\ cat_call[d].op = "delete_category"
        /\ ~cat_user[d].ok /\ cat_result[d].err = "UserNotFound"
        /\ cat_trace[d] = <<>>
        /\ categories = {Category(1, "movies")}

====
